---- MODULE Spec2Model ----
(***************************************************************************)
(* Model of the calc-mcp expression evaluator (src/src/calculator.rs):     *)
(* Calculator::evaluate = length check, unsafe-character check, tokenize,  *)
(* evaluate_tokens (recursive descent over expression/term/power/factor).  *)
(*                                                                         *)
(* Characters are one-character strings, an input is a sequence of them.   *)
(* f64 is modelled by a scaled-down binary format with the same special    *)
(* values: a float is NaN, +/-infinity or a signed finite magnitude that   *)
(* is a multiple of 1/2 and at most FloatMax; results are rounded to the   *)
(* nearest representable value (ties to even) and overflow to infinity.    *)
(* FloatMax stands for f64::MAX: a decimal literal above it parses to      *)
(* infinity, as a literal of more than 309 digits does in the program.     *)
(***************************************************************************)
EXTENDS Integers, Sequences, FiniteSets, TLC

\* Largest finite magnitude of the scaled-down float format.
FloatMax == 1000

\* Largest magnitude in units of 1/2.
MaxM == 2 * FloatMax

\* Units of the guard precision used inside powf and sqrt (1/32).
Guard == 2 * 16

\* Saturation value of the guard-precision magnitudes: any magnitude at or
\* above it overflows the format.
Cap == (FloatMax + 1) * Guard

-----------------------------------------------------------------------------
(* f64 values *)

NaN == [k |-> "nan", s |-> 1, m |-> 0]
Inf(s) == [k |-> "inf", s |-> s, m |-> 0]
Fin(s, m) == [k |-> "fin", s |-> s, m |-> m]
Zero == Fin(1, 0)
One == Fin(1, 2)

\* A float holding the integer n (|n| <= FloatMax).
FInt(n) == IF n < 0 THEN Fin(-1, 2 * (0 - n)) ELSE Fin(1, 2 * n)

is_nan(x) == x.k = "nan"
is_finite(x) == x.k = "fin"
IsZero(x) == x.k = "fin" /\ x.m = 0

\* n/d rounded to the nearest integer, ties to even (n >= 0, d > 0).
RoundDiv(n, d) ==
    LET q == n \div d
        r == n % d
    IN  IF 2 * r > d \/ (2 * r = d /\ q % 2 = 1) THEN q + 1 ELSE q

\* The float of sign s nearest to n/d units of 1/2; infinity on overflow.
Mk(s, n, d) ==
    LET r == RoundDiv(n, d)
    IN  IF r > MaxM THEN Inf(s) ELSE Fin(s, r)

\* x == y of f64: NaN equals nothing, 0.0 equals -0.0.
feq(x, y) ==
    /\ ~is_nan(x)
    /\ ~is_nan(y)
    /\ \/ x = y
       \/ IsZero(x) /\ IsZero(y)

fneg(x) == IF is_nan(x) THEN NaN ELSE [x EXCEPT !.s = 0 - x.s]

fadd(x, y) ==
    IF is_nan(x) \/ is_nan(y) THEN NaN
    ELSE IF x.k = "inf" /\ y.k = "inf" THEN (IF x.s = y.s THEN x ELSE NaN)
    ELSE IF x.k = "inf" THEN x
    ELSE IF y.k = "inf" THEN y
    ELSE LET v == x.s * x.m + y.s * y.m
         IN  IF v = 0 THEN (IF x.s = -1 /\ y.s = -1 THEN Fin(-1, 0) ELSE Zero)
             ELSE IF v < 0 THEN Mk(-1, 0 - v, 1)
             ELSE Mk(1, v, 1)

fsub(x, y) == fadd(x, fneg(y))

fmul(x, y) ==
    IF is_nan(x) \/ is_nan(y) THEN NaN
    ELSE IF (x.k = "inf" /\ IsZero(y)) \/ (IsZero(x) /\ y.k = "inf") THEN NaN
    ELSE IF x.k = "inf" \/ y.k = "inf" THEN Inf(x.s * y.s)
    ELSE Mk(x.s * y.s, x.m * y.m, 2)

fdiv(x, y) ==
    IF is_nan(x) \/ is_nan(y) THEN NaN
    ELSE IF (x.k = "inf" /\ y.k = "inf") \/ (IsZero(x) /\ IsZero(y)) THEN NaN
    ELSE IF x.k = "inf" \/ IsZero(y) THEN Inf(x.s * y.s)
    ELSE IF y.k = "inf" THEN Fin(x.s * y.s, 0)
    ELSE Mk(x.s * y.s, 2 * x.m, y.m)

-----------------------------------------------------------------------------
(* powf and the whitelisted functions.  The values are those of the real   *)
(* functions rounded to the format (powers and roots through a guard       *)
(* precision, ln and the trigonometric functions through rational          *)
(* approximations); the special cases are those of IEEE 754 / libm.        *)

\* v * (n/d)^k in guard units, saturated at Cap; stops at a fixed point.
RECURSIVE PowG(_, _, _, _)
PowG(v, n, d, k) ==
    IF k = 0 \/ n = d THEN v
    ELSE LET w == RoundDiv(v * n, d)
         IN  IF w >= Cap THEN Cap
             ELSE IF w = v THEN v
             ELSE PowG(w, n, d, k - 1)

\* The largest r in lo..hi-1 with r * r <= t  (lo * lo <= t < hi * hi).
RECURSIVE SqrtSearch(_, _, _)
SqrtSearch(t, lo, hi) ==
    IF hi - lo <= 1 THEN lo
    ELSE LET mid == (lo + hi) \div 2
         IN  IF mid <= t \div mid THEN SqrtSearch(t, mid, hi)
             ELSE SqrtSearch(t, lo, mid)

\* sqrt(n/d) in guard units, rounded to nearest.
SqrtG(n, d) ==
    LET t == (n * Guard * Guard) \div d
        r == SqrtSearch(t, 0, t + 1)
    IN  IF t - r * r > r THEN r + 1 ELSE r

\* y is an odd integer.
IsOddInt(y) == y.k = "fin" /\ y.m % 4 = 2

\* f64::powf for finite x with |x| > 0, finite y /= 0.
PowFinite(x, y) ==
    LET k == y.m \div 2
        h == y.m % 2
        n == IF y.s = 1 THEN x.m ELSE 2
        d == IF y.s = 1 THEN 2 ELSE x.m
        v == PowG(Guard, n, d, k)
        u == IF h = 1 THEN SqrtG(n, d) ELSE Guard
        w == RoundDiv(v * u, Guard)
    IN  IF x.s = -1 /\ h = 1 THEN NaN
        ELSE Mk(IF x.s = -1 /\ IsOddInt(y) THEN -1 ELSE 1, 2 * w, Guard)

powf(x, y) ==
    IF IsZero(y) \/ x = One THEN One
    ELSE IF is_nan(x) \/ is_nan(y) THEN NaN
    ELSE IF y.k = "inf" THEN
        (IF x.k = "fin" /\ x.m = 2 THEN One
         ELSE IF (x.k = "fin" /\ x.m < 2) = (y.s = 1) THEN Zero
         ELSE Inf(1))
    ELSE IF x.k = "inf" \/ IsZero(x) THEN
        LET sg == IF x.s = -1 /\ IsOddInt(y) THEN -1 ELSE 1
        IN  IF (x.k = "inf") = (y.s = 1) THEN Inf(sg) ELSE Fin(sg, 0)
    ELSE PowFinite(x, y)

sqrt(x) ==
    IF is_nan(x) THEN NaN
    ELSE IF IsZero(x) THEN x
    ELSE IF x.s = -1 THEN NaN
    ELSE IF x.k = "inf" THEN x
    ELSE Mk(1, 2 * SqrtG(x.m, 2), Guard)

abs(x) == IF is_nan(x) THEN NaN ELSE [x EXCEPT !.s = 1]

\* The number of thresholds e^(1/4), e^(3/4), e^(5/4), ... (t in 1/100)
\* that are at most n/d: ln(n/d) in units of 1/2, for n/d >= 1.
RECURSIVE LnCount(_, _, _, _)
LnCount(n, d, t, r) ==
    IF 100 * n < t * d THEN r
    ELSE LnCount(n, d, RoundDiv(t * 1649, 1000), r + 1)

ln(x) ==
    IF is_nan(x) THEN NaN
    ELSE IF IsZero(x) THEN Inf(-1)
    ELSE IF x.s = -1 THEN NaN
    ELSE IF x.k = "inf" THEN x
    ELSE IF x.m >= 2 THEN Fin(1, LnCount(x.m, 2, 128, 0))
    ELSE LET r == LnCount(2, x.m, 128, 0)
         IN  Fin(IF r = 0 THEN 1 ELSE -1, r)

\* 1000 * sin of the angle t/226 rad (0 <= t < 1420, pi = 355/113), by
\* Bhaskara's approximation 16t(pi-t) / (5pi^2 - 4t(pi-t)) on a half period.
SinMilli(t) ==
    LET h == t % 710
        p == h * (710 - h)
        q == RoundDiv(16 * p, (2520500 - 4 * p) \div 1000)
    IN  IF t < 710 THEN q ELSE 0 - q

\* The angle of a finite x, reduced to one period, in units of 1/226 rad.
Angle(x) ==
    LET t == (113 * x.m) % 1420
    IN  IF x.s = 1 THEN t ELSE (1420 - t) % 1420

\* The float nearest to v/1000 (|v| <= 1000), a zero taking the sign sz.
FromMilli(v, sz) ==
    IF v < 0 THEN Fin(-1, RoundDiv(2 * (0 - v), 1000))
    ELSE IF v > 0 THEN Fin(1, RoundDiv(2 * v, 1000))
    ELSE Fin(sz, 0)

sin(x) ==
    IF x.k # "fin" THEN NaN
    ELSE IF IsZero(x) THEN x
    ELSE FromMilli(SinMilli(Angle(x)), 1)

cos(x) ==
    IF x.k # "fin" THEN NaN
    ELSE FromMilli(SinMilli((Angle(x) + 355) % 1420), 1)

\* tan is finite for every finite argument: the quotient is clamped to the
\* largest finite magnitude where the approximated cosine vanishes.
tan(x) ==
    IF x.k # "fin" THEN NaN
    ELSE IF IsZero(x) THEN x
    ELSE LET sn == SinMilli(Angle(x))
             cs == SinMilli((Angle(x) + 355) % 1420)
             an == IF sn < 0 THEN 0 - sn ELSE sn
             ac == IF cs < 0 THEN 0 - cs ELSE cs
             sg == IF (sn < 0) = (cs < 0) THEN 1 ELSE -1
             r  == IF ac = 0 THEN MaxM ELSE RoundDiv(2 * an, ac)
         IN  Fin(sg, IF r > MaxM THEN MaxM ELSE r)

-----------------------------------------------------------------------------
(* Characters, tokens and results *)

\* The input length limit of evaluate, in bytes (str::len).
MaxInputLen == 1000

Digits == {"0", "1", "2", "3", "4", "5", "6", "7", "8", "9"}

AsciiLetters ==
    {"a", "b", "c", "d", "e", "f", "g", "h", "i", "j", "k", "l", "m",
     "n", "o", "p", "q", "r", "s", "t", "u", "v", "w", "x", "y", "z",
     "A", "B", "C", "D", "E", "F", "G", "H", "I", "J", "K", "L", "M",
     "N", "O", "P", "Q", "R", "S", "T", "U", "V", "W", "X", "Y", "Z"}

\* Characters outside ASCII are written by their code point: U+00E9 is an
\* alphabetic character of two bytes, U+3000 a white-space character of
\* three bytes.
NonAsciiAlphabetic == {"U+00E9"}

OperatorChars == {"+", "-", "*", "/", "^"}

\* Mutant of UnsafeChars: '&' is left out of the check.
UnsafeCharsNoAmp == {";", "|"}

UnsafeChars == {";", "|", "&"}

\* char::is_alphabetic
is_alphabetic(ch) == ch \in AsciiLetters \/ ch \in NonAsciiAlphabetic

\* The number of bytes of a character in UTF-8.
Utf8Len(ch) ==
    IF ch = "U+00E9" THEN 2 ELSE IF ch = "U+3000" THEN 3 ELSE 1

\* str::len: the length of the input in bytes.
ByteLen(e) ==
    Len(e) + Cardinality({i \in 1..Len(e) : Utf8Len(e[i]) = 2})
           + 2 * Cardinality({i \in 1..Len(e) : Utf8Len(e[i]) = 3})

\* str::contains for a character.
contains(e, ch) == \E i \in 1..Len(e) : e[i] = ch

Number(v) == [t |-> "Number", v |-> v]
Operator(c) == [t |-> "Operator", c |-> c]
Function(name) == [t |-> "Function", name |-> name]
LeftParen == [t |-> "LeftParen"]
RightParen == [t |-> "RightParen"]

\* The keys of allowed_functions.
Whitelist ==
    {<<"s", "q", "r", "t">>, <<"a", "b", "s">>, <<"s", "i", "n">>,
     <<"c", "o", "s">>, <<"t", "a", "n">>, <<"l", "n">>}

\* allowed_functions[name](x), for a key name.
ApplyFunction(name, x) ==
    CASE name = <<"s", "q", "r", "t">> -> sqrt(x)
      [] name = <<"a", "b", "s">> -> abs(x)
      [] name = <<"s", "i", "n">> -> sin(x)
      [] name = <<"c", "o", "s">> -> cos(x)
      [] name = <<"t", "a", "n">> -> tan(x)
      [] name = <<"l", "n">> -> ln(x)

Ok(v) == [ok |-> TRUE, val |-> v]
Err(kind, arg) == [ok |-> FALSE, err |-> kind, arg |-> arg]
NoResult == [ok |-> FALSE, err |-> "none", arg |-> <<>>]

-----------------------------------------------------------------------------
(* parse_number and parse_identifier *)

\* The least element of a non-empty set of integers.
Min(S) == CHOOSE i \in S : \A j \in S : i <= j

\* The index just after the run of digits with at most one '.' that starts
\* at i: where the loop of parse_number breaks (at the first character that
\* is no digit and no '.', or at the second '.', or at the end).
\* Mutant of NumberEnd: the run ends after its first character.
NumberEndOneChar(e, i) == i + 1

NumberEnd(e, i) ==
    LET stop == Min({j \in i..Len(e) : e[j] \notin Digits \union {"."}}
                    \union {Len(e) + 1})
        dots == {j \in i..(stop - 1) : e[j] = "."}
    IN  IF Cardinality(dots) >= 2 THEN Min(dots \ {Min(dots)}) ELSE stop

DigitVal(ch) ==
    CASE ch = "0" -> 0 [] ch = "1" -> 1 [] ch = "2" -> 2 [] ch = "3" -> 3
      [] ch = "4" -> 4 [] ch = "5" -> 5 [] ch = "6" -> 6 [] ch = "7" -> 7
      [] ch = "8" -> 8 [] ch = "9" -> 9

\* The value of the digits str[i..j], for at most five of them.
RECURSIVE DigitsVal(_, _, _, _)
DigitsVal(str, i, j, acc) ==
    IF i > j THEN acc
    ELSE DigitsVal(str, i + 1, j, 10 * acc + DigitVal(str[i]))

\* The value of the digits str[1..j], saturated at FloatMax + 1 (leading
\* zeros are skipped, and more than five digits exceed FloatMax).
IntPart(str, j) ==
    LET nz == {i \in 1..j : str[i] # "0"}
        k  == IF nz = {} THEN j + 1 ELSE Min(nz)
        v  == IF j - k >= 5 THEN FloatMax + 1 ELSE DigitsVal(str, k, j, 0)
    IN  IF v > FloatMax THEN FloatMax + 1 ELSE v

\* str::parse::<f64> of a run of digits with at most one '.': an error when
\* the run holds no digit, else the nearest float (infinity on overflow).
\* Of the digits after the '.', the first five decide the rounding and the
\* later ones break a tie upward.
ParseF64(str) ==
    LET dot   == IF contains(str, ".")
                 THEN CHOOSE i \in 1..Len(str) : str[i] = "."
                 ELSE Len(str) + 1
        fracn == IF Len(str) - dot > 5 THEN 5
                 ELSE IF Len(str) < dot THEN 0 ELSE Len(str) - dot
        den   == CASE fracn = 0 -> 1 [] fracn = 1 -> 10 [] fracn = 2 -> 100
                   [] fracn = 3 -> 1000 [] fracn = 4 -> 10000
                   [] fracn = 5 -> 100000
        ip    == IntPart(str, dot - 1)
        fpx   == DigitsVal(str, dot + 1, dot + fracn, 0)
        stick == \E i \in (dot + fracn + 1)..Len(str) : str[i] # "0"
        n     == 2 * (ip * den + fpx)
        q     == n \div den
        r     == n % den
        up    == 2 * r > den \/ (2 * r = den /\ (stick \/ q % 2 = 1))
        u     == IF up THEN q + 1 ELSE q
    IN  IF \A i \in 1..Len(str) : str[i] = "." THEN Err("NumberParseError", str)
        ELSE IF u > MaxM THEN Ok(Inf(1))
        ELSE Ok(Fin(1, u))

\* The index just after the run of alphabetic characters that starts at i:
\* where the loop of parse_identifier breaks.
IdentifierEnd(e, i) ==
    Min({j \in i..Len(e) : ~is_alphabetic(e[j])} \union {Len(e) + 1})

-----------------------------------------------------------------------------
(* State of one call of Calculator::evaluate *)

VARIABLES
    expression,  \* the input: a sequence of characters
    pc,          \* the position of the call inside evaluate
    chars,       \* the index of the character the tokenizer peeks at
    tokens,      \* the token sequence built by tokenize
    stack,       \* the active calls of the evaluator, innermost last
    ret,         \* the (value, cursor) pair returned by the last call
    result,      \* the Result returned by evaluate
    scanned,     \* history: a character of the input has been looked at
    consumed,    \* history: the token indexes the evaluator has stepped over
    applied,     \* history: the operations the evaluator has computed
    calls        \* history: the earlier calls of calculate and their outcomes

vars ==
    <<expression, pc, chars, tokens, stack, ret, result, scanned, consumed,
      applied, calls>>

NoRet == [val |-> Zero, pos |-> 0]

Frame(fn, pos) ==
    [fn |-> fn, st |-> "start", pos |-> pos, left |-> Zero, name |-> <<>>]

Top == stack[Len(stack)]

Running(fn, st) ==
    /\ pc = "evaluate_expression"
    /\ stack # <<>>
    /\ Top.fn = fn
    /\ Top.st = st

\* tokens[pos] of the code (the cursor counts from 0).
TokenAt(pos) == tokens[pos + 1]

HasToken(pos, tok) == pos < Len(tokens) /\ TokenAt(pos) = tok

\* The stack with its innermost frame replaced.
SetTop(f) == [stack EXCEPT ![Len(stack)] = f]

Pop == SubSeq(stack, 1, Len(stack) - 1)

\* The innermost call returns Ok((val, pos)) to its caller.
Return(val, pos) ==
    /\ ret' = [val |-> val, pos |-> pos]
    /\ stack' = Pop
    /\ UNCHANGED <<pc, result>>

\* The innermost call returns Err, which every caller passes on with `?`.
Fail(kind, arg) ==
    /\ result' = Err(kind, arg)
    /\ stack' = <<>>
    /\ pc' = "done"
    /\ UNCHANGED ret

\* The caller keeps frame f and calls fn at cursor pos.
Call(f, fn, pos) ==
    /\ stack' = Append(SetTop(f), Frame(fn, pos))
    /\ UNCHANGED <<pc, ret, result>>

Lexing == <<expression, calls, chars, tokens, scanned>>

-----------------------------------------------------------------------------
(* Calculator::evaluate *)

\* Mutant of Evaluate: the unsafe characters are looked for before the
\* length is checked.
EvaluateUnsafeFirst ==
    /\ pc = "evaluate"
    /\ IF \E ch \in {";", "|", "&"} : contains(expression, ch)
       THEN /\ result' = Err("UnsafeCharacter", <<>>)
            /\ pc' = "done"
            /\ scanned' = TRUE
       ELSE IF ByteLen(expression) > MaxInputLen
       THEN /\ result' = Err("InputTooLong", <<>>)
            /\ pc' = "done"
            /\ scanned' = (expression # <<>>)
       ELSE /\ pc' = "unsafe_check"
            /\ scanned' = (expression # <<>>)
            /\ UNCHANGED result
    /\ UNCHANGED <<expression, calls, chars, tokens, stack, ret, consumed,
                   applied>>

\* The length check.
Evaluate ==
    /\ pc = "evaluate"
    /\ IF ByteLen(expression) > MaxInputLen
       THEN /\ result' = Err("InputTooLong", <<>>)
            /\ pc' = "done"
       ELSE /\ pc' = "unsafe_check"
            /\ UNCHANGED result
    /\ UNCHANGED <<expression, calls, chars, tokens, stack, ret, scanned,
                   consumed, applied>>

\* The check for ';', '|' and '&'.
UnsafeCheck ==
    /\ pc = "unsafe_check"
    /\ scanned' = (scanned \/ expression # <<>>)
    /\ IF \E ch \in UnsafeChars : contains(expression, ch)
       THEN /\ result' = Err("UnsafeCharacter", <<>>)
            /\ pc' = "done"
       ELSE /\ pc' = "tokenize"
            /\ UNCHANGED result
    /\ UNCHANGED <<expression, calls, chars, tokens, stack, ret, consumed,
                   applied>>

-----------------------------------------------------------------------------
(* Calculator::tokenize: one action per branch of the loop *)

Peek(ch) == pc = "tokenize" /\ chars <= Len(expression) /\ expression[chars] = ch

Emit(tok, next) ==
    /\ tokens' = Append(tokens, tok)
    /\ chars' = next
    /\ scanned' = TRUE
    /\ UNCHANGED <<expression, calls, pc, stack, ret, result, consumed,
                   applied>>

LexFail(kind, arg) ==
    /\ result' = Err(kind, arg)
    /\ pc' = "done"
    /\ scanned' = TRUE
    /\ UNCHANGED <<expression, calls, chars, tokens, stack, ret, consumed,
                   applied>>

\* Mutant of TokenizeSpace: the space is peeked at and never taken.
TokenizeSpaceStuck ==
    /\ Peek(" ")
    /\ scanned' = TRUE
    /\ UNCHANGED <<expression, calls, pc, chars, tokens, stack, ret, result,
                   consumed, applied>>

\* Mutant of TokenizeSpace: a space is rejected like any other character
\* that starts no token.
TokenizeSpaceInvalid ==
    /\ Peek(" ")
    /\ LexFail("InvalidCharacter", " ")

TokenizeSpace ==
    /\ Peek(" ")
    /\ chars' = chars + 1
    /\ scanned' = TRUE
    /\ UNCHANGED <<expression, calls, pc, tokens, stack, ret, result, consumed,
                   applied>>

TokenizeNumber ==
    /\ \E ch \in Digits \union {"."} : Peek(ch)
    /\ LET end == NumberEnd(expression, chars)
           number == ParseF64(SubSeq(expression, chars, end - 1))
       IN  IF number.ok
           THEN Emit(Number(number.val), end)
           ELSE LexFail(number.err, number.arg)

TokenizeOperator ==
    \E ch \in OperatorChars :
        /\ Peek(ch)
        /\ Emit(Operator(ch), chars + 1)

TokenizeLeftParen == Peek("(") /\ Emit(LeftParen, chars + 1)

TokenizeRightParen == Peek(")") /\ Emit(RightParen, chars + 1)

\* Mutant of TokenizeIdentifier: every identifier becomes a Function token.
TokenizeIdentifierUnchecked ==
    /\ \E ch \in AsciiLetters : Peek(ch)
    /\ LET end == IdentifierEnd(expression, chars)
       IN  Emit(Function(SubSeq(expression, chars, end - 1)), end)

\* Mutant of TokenizeIdentifier: an identifier that is no whitelist key is
\* skipped like a space.
TokenizeIdentifierSkipped ==
    /\ \E ch \in AsciiLetters : Peek(ch)
    /\ LET end == IdentifierEnd(expression, chars)
           function_name == SubSeq(expression, chars, end - 1)
       IN  IF function_name \in Whitelist
           THEN Emit(Function(function_name), end)
           ELSE /\ chars' = end
                /\ scanned' = TRUE
                /\ UNCHANGED <<expression, calls, pc, tokens, stack, ret,
                               result, consumed, applied>>

TokenizeIdentifier ==
    /\ \E ch \in AsciiLetters : Peek(ch)
    /\ LET end == IdentifierEnd(expression, chars)
           function_name == SubSeq(expression, chars, end - 1)
       IN  IF function_name \in Whitelist
           THEN Emit(Function(function_name), end)
           ELSE LexFail("UnknownFunction", function_name)

\* Mutant of TokenizeInvalid: a character that starts no token ends the
\* tokenization, and the tokens read so far are evaluated.
TokenizeInvalidStops ==
    /\ pc = "tokenize"
    /\ chars <= Len(expression)
    /\ expression[chars] \notin
           {" ", ".", "(", ")"} \union Digits \union OperatorChars
                                \union AsciiLetters
    /\ pc' = "evaluate_tokens"
    /\ scanned' = TRUE
    /\ UNCHANGED <<expression, calls, chars, tokens, stack, ret, result,
                   consumed, applied>>

TokenizeInvalid ==
    /\ pc = "tokenize"
    /\ chars <= Len(expression)
    /\ expression[chars] \notin
           {" ", ".", "(", ")"} \union Digits \union OperatorChars
                                \union AsciiLetters
    /\ LexFail("InvalidCharacter", expression[chars])

\* The end of the input: tokenize returns Ok(tokens).
TokenizeReturn ==
    /\ pc = "tokenize"
    /\ chars > Len(expression)
    /\ pc' = "evaluate_tokens"
    /\ UNCHANGED <<expression, calls, chars, tokens, stack, ret, result,
                   scanned, consumed, applied>>

-----------------------------------------------------------------------------
(* Calculator::evaluate_tokens *)

\* Mutant of EvaluateTokens: the evaluation starts without looking whether
\* there is a token.
EvaluateTokensUnchecked ==
    /\ pc = "evaluate_tokens"
    /\ stack' = <<Frame("expression", 0)>>
    /\ pc' = "evaluate_expression"
    /\ UNCHANGED <<Lexing, ret, result, consumed, applied>>

EvaluateTokens ==
    /\ pc = "evaluate_tokens"
    /\ IF tokens = <<>>
       THEN /\ result' = Err("EmptyExpression", <<>>)
            /\ pc' = "done"
            /\ UNCHANGED stack
       ELSE /\ stack' = <<Frame("expression", 0)>>
            /\ pc' = "evaluate_expression"
            /\ UNCHANGED result
    /\ UNCHANGED <<Lexing, ret, consumed, applied>>

\* Mutant of EvaluateTokensReturn: a cursor short of the end is an error.
EvaluateTokensReturnStrict ==
    /\ pc = "evaluate_expression"
    /\ stack = <<>>
    /\ result' = IF ret.pos < Len(tokens)
                 THEN Err("UnexpectedToken", <<>>)
                 ELSE Ok(ret.val)
    /\ pc' = "done"
    /\ UNCHANGED <<Lexing, stack, ret, consumed, applied>>

\* .map(|(result, _)| result): the value is returned, the cursor dropped.
EvaluateTokensReturn ==
    /\ pc = "evaluate_expression"
    /\ stack = <<>>
    /\ result' = Ok(ret.val)
    /\ pc' = "done"
    /\ UNCHANGED <<Lexing, stack, ret, consumed, applied>>

-----------------------------------------------------------------------------
(* The shape shared by evaluate_expression, evaluate_term and              *)
(* evaluate_power: evaluate a first operand one level down, then loop      *)
(* while the token at the cursor is an operator of the level.              *)

\* An entry of the history of computed operations: a binary operator with
\* its operands, or ("call") a whitelisted function with its argument.
Did(op, left, right) ==
    [op |-> op, name |-> <<>>, left |-> left, right |-> right]

DidCall(name, arg) ==
    [op |-> "call", name |-> name, left |-> arg, right |-> arg]

\* let (mut left, new_pos) = self.callee(tokens, pos)?  -- the call
FirstCall(fn, callee) ==
    /\ Running(fn, "start")
    /\ Call([Top EXCEPT !.st = "first"], callee, Top.pos)
    /\ UNCHANGED <<Lexing, consumed, applied>>

\* ... and its return: left and pos are set from the callee's result.
FirstAssign(fn) ==
    /\ Running(fn, "first")
    /\ stack' = SetTop([Top EXCEPT !.st = "loop", !.left = ret.val,
                                   !.pos = ret.pos])
    /\ UNCHANGED <<Lexing, pc, ret, result, consumed, applied>>

\* The loop finds operator c at the cursor: pos += 1 and the right operand
\* is evaluated by callee; st names the pending operation.
OperatorCall(fn, c, st, callee) ==
    /\ Running(fn, "loop")
    /\ HasToken(Top.pos, Operator(c))
    /\ Call([Top EXCEPT !.st = st, !.pos = Top.pos + 1], callee, Top.pos + 1)
    /\ consumed' = Append(consumed, Top.pos)
    /\ UNCHANGED <<Lexing, applied>>

\* The right operand has returned: left becomes value, pos = new_pos.
OperatorAssign(c, value) ==
    /\ stack' = SetTop([Top EXCEPT !.st = "loop", !.left = value,
                                   !.pos = ret.pos])
    /\ applied' = Append(applied, Did(c, Top.left, ret.val))
    /\ UNCHANGED <<Lexing, pc, ret, result, consumed>>

\* The loop ends (no token left, or `_ => break`): Ok((left, pos)).
LoopBreak(fn, ops) ==
    /\ Running(fn, "loop")
    /\ \A i \in 1..Len(ops) : ~HasToken(Top.pos, Operator(ops[i]))
    /\ Return(Top.left, Top.pos)
    /\ UNCHANGED <<Lexing, consumed, applied>>

(* Calculator::evaluate_expression *)

ExprFirstCall == FirstCall("expression", "term")

ExprFirstAssign == FirstAssign("expression")

\* Mutant of ExprPlus: the right operand of '+' is evaluated by
\* evaluate_power, so that a following '*' is not part of it.
ExprPlusPower == OperatorCall("expression", "+", "add", "power")

ExprPlus == OperatorCall("expression", "+", "add", "term")

ExprAddAssign ==
    /\ Running("expression", "add")
    /\ OperatorAssign("+", fadd(Top.left, ret.val))

ExprMinus == OperatorCall("expression", "-", "sub", "term")

ExprSubAssign ==
    /\ Running("expression", "sub")
    /\ OperatorAssign("-", fsub(Top.left, ret.val))

ExprBreak == LoopBreak("expression", <<"+", "-">>)

(* Calculator::evaluate_term *)

TermFirstCall == FirstCall("term", "power")

TermFirstAssign == FirstAssign("term")

TermStar == OperatorCall("term", "*", "mul", "power")

TermMulAssign ==
    /\ Running("term", "mul")
    /\ OperatorAssign("*", fmul(Top.left, ret.val))

TermSlash == OperatorCall("term", "/", "div", "power")

\* Mutant of DivisorIsZero: the divisor is compared with +0.0 bit by bit, so
\* that -0.0 passes.
DivisorIsPositiveZero(right) == right = Zero

\* if right == 0.0 { return Err(..) }
DivisorIsZero(right) == feq(right, Zero)

TermDivAssign ==
    /\ Running("term", "div")
    /\ IF DivisorIsZero(ret.val)
       THEN /\ Fail("DivisionByZero", <<>>)
            /\ UNCHANGED <<Lexing, consumed, applied>>
       ELSE OperatorAssign("/", fdiv(Top.left, ret.val))

TermBreak == LoopBreak("term", <<"*", "/">>)

(* Calculator::evaluate_power *)

PowerFirstCall == FirstCall("power", "factor")

PowerFirstAssign == FirstAssign("power")

\* Mutant of PowerCaret: the right operand of '^' is evaluated by
\* evaluate_power, which makes the operator right-associative.
PowerCaretRight == OperatorCall("power", "^", "pow", "power")

PowerCaret == OperatorCall("power", "^", "pow", "factor")

\* Mutant of PowerAssign: the result of powf is assigned without the
\* is_finite check.
PowerAssignUnchecked ==
    /\ Running("power", "pow")
    /\ OperatorAssign("^", powf(Top.left, ret.val))

PowerAssign ==
    /\ Running("power", "pow")
    /\ LET left == powf(Top.left, ret.val)
       IN  IF ~is_finite(left)
           THEN /\ Fail("InvalidPowerResult", <<>>)
                /\ applied' = Append(applied, Did("^", Top.left, ret.val))
                /\ UNCHANGED <<Lexing, consumed>>
           ELSE OperatorAssign("^", left)

PowerBreak == LoopBreak("power", <<"^">>)

-----------------------------------------------------------------------------
(* Calculator::evaluate_factor *)

FactorEnd ==
    /\ Running("factor", "start")
    /\ Top.pos >= Len(tokens)
    /\ Fail("UnexpectedEndOfInput", <<>>)
    /\ UNCHANGED <<Lexing, consumed, applied>>

\* Mutant of FactorNumber: the value is returned with the cursor still on
\* the number.
FactorNumberNoAdvance ==
    /\ Running("factor", "start")
    /\ Top.pos < Len(tokens)
    /\ TokenAt(Top.pos).t = "Number"
    /\ Return(TokenAt(Top.pos).v, Top.pos)
    /\ consumed' = Append(consumed, Top.pos)
    /\ UNCHANGED <<Lexing, applied>>

FactorNumber ==
    /\ Running("factor", "start")
    /\ Top.pos < Len(tokens)
    /\ TokenAt(Top.pos).t = "Number"
    /\ Return(TokenAt(Top.pos).v, Top.pos + 1)
    /\ consumed' = Append(consumed, Top.pos)
    /\ UNCHANGED <<Lexing, applied>>

\* A sign: pos += 1 and the factor after it is evaluated.
SignCall(c, st) ==
    /\ Running("factor", "start")
    /\ HasToken(Top.pos, Operator(c))
    /\ Call([Top EXCEPT !.st = st, !.pos = Top.pos + 1], "factor", Top.pos + 1)
    /\ consumed' = Append(consumed, Top.pos)
    /\ UNCHANGED <<Lexing, applied>>

\* Mutant of FactorMinus: the sign applies to the power that follows it.
FactorMinusPower ==
    /\ Running("factor", "start")
    /\ HasToken(Top.pos, Operator("-"))
    /\ Call([Top EXCEPT !.st = "neg", !.pos = Top.pos + 1], "power", Top.pos + 1)
    /\ consumed' = Append(consumed, Top.pos)
    /\ UNCHANGED <<Lexing, applied>>

FactorMinus == SignCall("-", "neg")

\* Ok((-value, new_pos))
FactorNegReturn ==
    /\ Running("factor", "neg")
    /\ Return(fneg(ret.val), ret.pos)
    /\ UNCHANGED <<Lexing, consumed, applied>>

FactorPlus == SignCall("+", "plus")

\* The result of the inner factor is returned as it is.
FactorPlusReturn ==
    /\ Running("factor", "plus")
    /\ Return(ret.val, ret.pos)
    /\ UNCHANGED <<Lexing, consumed, applied>>

FactorLeftParen ==
    /\ Running("factor", "start")
    /\ HasToken(Top.pos, LeftParen)
    /\ Call([Top EXCEPT !.st = "paren", !.pos = Top.pos + 1], "expression",
            Top.pos + 1)
    /\ consumed' = Append(consumed, Top.pos)
    /\ UNCHANGED <<Lexing, applied>>

FactorRightParen ==
    /\ Running("factor", "paren")
    /\ IF ~HasToken(ret.pos, RightParen)
       THEN /\ Fail("UnmatchedParenthesis", <<>>)
            /\ UNCHANGED consumed
       ELSE /\ Return(ret.val, ret.pos + 1)
            /\ consumed' = Append(consumed, ret.pos)
    /\ UNCHANGED <<Lexing, applied>>

FactorFunction ==
    /\ Running("factor", "start")
    /\ Top.pos < Len(tokens)
    /\ TokenAt(Top.pos).t = "Function"
    /\ IF ~HasToken(Top.pos + 1, LeftParen)
       THEN /\ Fail("MissingFunctionParenthesis", <<>>)
            /\ consumed' = Append(consumed, Top.pos)
       ELSE /\ Call([Top EXCEPT !.st = "func", !.pos = Top.pos + 2,
                                !.name = TokenAt(Top.pos).name],
                    "expression", Top.pos + 2)
            /\ consumed' = consumed \o <<Top.pos, Top.pos + 1>>
    /\ UNCHANGED <<Lexing, applied>>

\* Mutant of FactorApply: only NaN is rejected, an infinite result is
\* returned.
FactorApplyNanOnly ==
    /\ Running("factor", "func")
    /\ IF ~HasToken(ret.pos, RightParen)
       THEN /\ Fail("MissingFunctionClosingParenthesis", <<>>)
            /\ UNCHANGED <<consumed, applied>>
       ELSE LET function_result == ApplyFunction(Top.name, ret.val)
            IN  /\ applied' = Append(applied, DidCall(Top.name, ret.val))
                /\ IF is_nan(function_result)
                   THEN /\ Fail("InvalidFunctionResult", <<>>)
                        /\ UNCHANGED consumed
                   ELSE /\ Return(function_result, ret.pos + 1)
                        /\ consumed' = Append(consumed, ret.pos)
    /\ UNCHANGED Lexing

\* The argument has returned: the closing parenthesis is checked, the
\* function is looked up and applied, and its result is checked.
\* Mutant of FactorApply: the function is applied to the argument before
\* the token after the argument is looked at.
FactorApplyBeforeCheck ==
    /\ Running("factor", "func")
    /\ LET function_result == ApplyFunction(Top.name, ret.val)
       IN  /\ applied' = Append(applied, DidCall(Top.name, ret.val))
           /\ IF ~is_finite(function_result)
              THEN /\ Fail("InvalidFunctionResult", <<>>)
                   /\ UNCHANGED consumed
              ELSE IF ~HasToken(ret.pos, RightParen)
              THEN /\ Fail("MissingFunctionClosingParenthesis", <<>>)
                   /\ UNCHANGED consumed
              ELSE /\ Return(function_result, ret.pos + 1)
                   /\ consumed' = Append(consumed, ret.pos)
    /\ UNCHANGED Lexing

FactorApply ==
    /\ Running("factor", "func")
    /\ IF ~HasToken(ret.pos, RightParen)
       THEN /\ Fail("MissingFunctionClosingParenthesis", <<>>)
            /\ UNCHANGED <<consumed, applied>>
       ELSE IF Top.name \notin Whitelist
       THEN /\ Fail("UnregisteredFunction", Top.name)
            /\ UNCHANGED <<consumed, applied>>
       ELSE LET function_result == ApplyFunction(Top.name, ret.val)
            IN  /\ applied' = Append(applied, DidCall(Top.name, ret.val))
                /\ IF ~is_finite(function_result)
                   THEN /\ Fail("InvalidFunctionResult", <<>>)
                        /\ UNCHANGED consumed
                   ELSE /\ Return(function_result, ret.pos + 1)
                        /\ consumed' = Append(consumed, ret.pos)
    /\ UNCHANGED Lexing

FactorUnexpected ==
    /\ Running("factor", "start")
    /\ Top.pos < Len(tokens)
    /\ TokenAt(Top.pos).t \notin {"Number", "LeftParen", "Function"}
    /\ TokenAt(Top.pos) \notin {Operator("-"), Operator("+")}
    /\ Fail("UnexpectedToken", TokenAt(Top.pos))
    /\ UNCHANGED <<Lexing, consumed, applied>>

-----------------------------------------------------------------------------
(* The inputs *)

\* The longest sequence of pieces in the exhaustive family of inputs.
MaxPieces == 3

Sp == <<" ">>

\* Operand literals: 0, 2, 3, 0.5, one close to the largest finite value
\* and one that overflows the format.
Lit0 == <<"0">>
Lit2 == <<"2">>
Lit3 == <<"3">>
LitHalf == <<".", "5">>
LitBig == <<"9", "9", "9">>
LitHuge == <<"9", "9", "9", "9">>

Operands == {Lit0, Lit2, Lit3, LitHalf}

Ops == {<<c>> : c \in OperatorChars}

Signs == {<<>>, <<"-">>, <<"+">>, <<"-", "-">>}

\* Every concatenation of at most n pieces.
RECURSIVE Concats(_, _)
Concats(pieces, n) ==
    IF n = 0 THEN {<<>>}
    ELSE LET shorter == Concats(pieces, n - 1)
         IN  shorter \union {x \o p : x \in shorter, p \in pieces}

LexPieces ==
    {<<"2">>, <<".">>, <<"-">>, <<"/">>, <<"(">>, <<")">>, Sp, <<"\t">>,
     <<"l", "n">>, <<"x">>, <<";">>, <<"U+00E9">>}

\* Short inputs of every shape.
LexInputs == Concats(LexPieces, MaxPieces)

\* a op1 b op2 c, with and without parentheses.
ChainInputs ==
    {a \o o1 \o b \o o2 \o c :
        a \in Operands, b \in Operands, c \in Operands, o1 \in Ops, o2 \in Ops}

ParenInputs ==
    {<<"(">> \o a \o o1 \o b \o <<")">> \o o2 \o c :
        a \in Operands, b \in Operands, c \in Operands, o1 \in Ops, o2 \in Ops}
    \union
    {a \o o1 \o <<"(">> \o b \o o2 \o c \o <<")">> :
        a \in Operands, b \in Operands, c \in Operands, o1 \in Ops, o2 \in Ops}

\* s1 a op s2 b: signs before either operand; operands that overflow.
SignInputs ==
    {s1 \o a \o o \o s2 \o b :
        s1 \in Signs, s2 \in Signs, o \in Ops,
        a \in Operands \union {LitBig, LitHuge},
        b \in Operands \union {LitBig, LitHuge}}

\* Function applications, well formed or not.
FunctionInputs ==
    UNION {{f \o <<"(">> \o s \o a \o <<")">>,
            f \o <<"(">> \o a \o <<"-">> \o b \o <<")">>,
            f \o <<"(">> \o a,
            f \o s \o a,
            f \o <<"(">> \o a \o Sp \o b \o <<")">>,
            a \o <<"*">> \o f \o <<"(">> \o b \o <<")">>} :
           f \in Whitelist, s \in {<<>>, <<"-">>},
           a \in Operands \union {LitHuge}, b \in Operands}

\* A complete expression followed by tokens it cannot take in.
Trailers ==
    {<<")">>, Sp \o Lit3, <<")">> \o Lit3, <<"(">>, <<"(">> \o Lit3,
     <<")", "/", "0">>, Sp \o <<"l", "n">>, <<")", "^">>,
     Sp \o Lit2 \o Sp \o Lit3}

TrailingInputs ==
    {a \o o \o b \o t : a \in Operands, b \in Operands, o \in Ops,
                        t \in Trailers}

\* Three lexemes with a gap after the first and after the second: nothing,
\* spaces, or a tab.
Lexemes == {Lit2, LitHalf, <<"+">>, <<"(">>, <<"l", "n">>}

SpaceGaps == {<<>>, Sp, Sp \o Sp}

Gaps == SpaceGaps \union {<<"\t">>}

SpacedInputs ==
    {a \o g1 \o b \o g2 \o c :
        a \in Lexemes, b \in Lexemes, c \in Lexemes, g1 \in Gaps, g2 \in Gaps}

\* Runs of digits and '.' of up to MaxNumberLen characters.
MaxNumberLen == 5

NumberInputs == Concats({<<"2">>, <<"5">>, <<".">>}, MaxNumberLen)

\* A complete expression, an unmatched ')' and trailing text that
\* tokenizes.
TrailingTextInputs ==
    {<<"2", " ", "+", " ", "3", ")", " ", "4">>,
     <<"2", " ", "+", " ", "3", ")", " ", "s", "i", "n">>}

\* Expressions that fail in the evaluator, each in its own way: a division
\* by zero, a function and a power without finite result, a function
\* without '(', a '(' without ')', a ')' where a factor starts, a function
\* without ')'.
FailingExpressions ==
    {<<"1", "/", "0">>,
     <<"l", "n", "(", "0", ")">>,
     <<"0", "^", "-", "2">>,
     <<"l", "n", "2">>,
     <<"(", "2", " ", "3", ")">>,
     <<")">>,
     <<"l", "n", "(", "2", " ", "3", ")">>}

\* Texts that the tokenizer rejects: a character that starts no token, a
\* name that is no function, a '.' without digit.
RejectedTexts == {<<"#">>, <<"x">>, <<" ", ".">>}

\* Two failing expressions joined by an operator, and a failing expression
\* followed by a rejected text, after nothing or after "2+".
FailureInputs ==
    {p \o f1 \o <<o>> \o f2 :
        p \in {<<>>, <<"2", "+">>}, f1 \in FailingExpressions,
        f2 \in FailingExpressions, o \in {"+", "-", "*", "/"}}
    \union
    {p \o f \o l \o t :
        p \in {<<>>, <<"2", "+">>}, f \in FailingExpressions,
        l \in RejectedTexts, t \in {<<>>, <<"+", "1", "/", "0">>, <<"x">>}}

\* n times the character ch.
Repeat(ch, n) == [i \in 1..n |-> ch]

\* Inputs at and around the length limit.
LongInputs ==
    {Repeat(ch, n) : ch \in {"1", " ", ";", "#", "x"},
                     n \in {MaxInputLen, MaxInputLen + 1}}
    \union {Repeat("U+00E9", n) : n \in {MaxInputLen \div 2,
                                         MaxInputLen \div 2 + 1}}
    \union {Repeat("1", MaxInputLen - 1) \o <<ch>> : ch \in {";", "U+00E9"}}

\* The inputs of the repository's tests and of the examples of its
\* documentation.
TestInputs ==
    {<<"2", " ", "+", " ", "3">>,
     <<"4", " ", "*", " ", "5">>,
     <<"2", " ", "+", " ", "3", " ", "*", " ", "4">>,
     <<"(", "2", " ", "+", " ", "3", ")", " ", "*", " ", "4">>,
     <<"s", "q", "r", "t", "(", "2", "5", ")">>,
     <<"a", "b", "s", "(", "-", "1", "0", ")">>,
     <<"2", "5", "^", "0", ".", "5">>,
     <<"2", " ", "+">>,
     <<"x", " ", "+", " ", "1">>,
     <<"3", ".", "1", "4", " ", "*", " ", "2">>,
     <<"2", "^", "3">>,
     <<"2", "^", "3", "^", "2">>,
     <<"-", "2", "^", "2">>,
     <<"2", " ", "+", " ", "3", ";", " ", "r", "m", " ", "-", "r", "f", " ",
       "/">>,
     <<"2", " ", "+", " ", "3", " ", "|", " ", "e", "c", "h", "o", " ",
       "h", "e", "l", "l", "o">>,
     <<"2", " ", "+", " ", "3", " ", "&", " ", "e", "c", "h", "o", " ",
       "w", "o", "r", "l", "d">>,
     <<"e", "x", "e", "c", "(", "r", "m", ")">>,
     <<"e", "x", "e", "c", "(", "1", ")">>,
     <<"1", " ", "/", " ", "0">>,
     <<"s", "q", "r", "t", "(", "-", "1", ")">>,
     <<"2", " ", "+", " ", "3", ")", " ", "e", "x", "t", "r", "a">>,
     <<"s", "i", "n", "(", "1", ".", "5", "7", ")">>}

Inputs ==
    LexInputs \union ChainInputs \union ParenInputs \union SignInputs
        \union FunctionInputs \union TrailingInputs \union LongInputs
        \union TestInputs \union SpacedInputs \union NumberInputs
        \union TrailingTextInputs \union FailureInputs

-----------------------------------------------------------------------------
(* The specification: one call of evaluate on any of the inputs *)

Init ==
    /\ expression \in Inputs
    /\ pc = "evaluate"
    /\ chars = 1
    /\ tokens = <<>>
    /\ stack = <<>>
    /\ ret = NoRet
    /\ result = NoResult
    /\ scanned = FALSE
    /\ consumed = <<>>
    /\ applied = <<>>
    /\ calls = <<>>

Next ==
    \/ Evaluate
    \/ UnsafeCheck
    \/ TokenizeSpace
    \/ TokenizeNumber
    \/ TokenizeOperator
    \/ TokenizeLeftParen
    \/ TokenizeRightParen
    \/ TokenizeIdentifier
    \/ TokenizeInvalid
    \/ TokenizeReturn
    \/ EvaluateTokens
    \/ EvaluateTokensReturn
    \/ ExprFirstCall
    \/ ExprFirstAssign
    \/ ExprPlus
    \/ ExprAddAssign
    \/ ExprMinus
    \/ ExprSubAssign
    \/ ExprBreak
    \/ TermFirstCall
    \/ TermFirstAssign
    \/ TermStar
    \/ TermMulAssign
    \/ TermSlash
    \/ TermDivAssign
    \/ TermBreak
    \/ PowerFirstCall
    \/ PowerFirstAssign
    \/ PowerCaret
    \/ PowerAssign
    \/ PowerBreak
    \/ FactorEnd
    \/ FactorNumber
    \/ FactorMinus
    \/ FactorNegReturn
    \/ FactorPlus
    \/ FactorPlusReturn
    \/ FactorLeftParen
    \/ FactorRightParen
    \/ FactorFunction
    \/ FactorApply
    \/ FactorUnexpected

Spec == Init /\ [][Next]_vars

-----------------------------------------------------------------------------
(* CalculatorService::calculate: a sequence of calls, each on a Calculator *)
(* made by Calculator::new() for that call                                 *)

\* The number of earlier calls that a sequence of calls records.
MaxCalls == 2

\* Expressions of every outcome: values, and a failure of every stage.
CallInputs ==
    {<<"(", "2", "-", "3", ")", "/", "2", "*", "-", "+", "2", "^", "2">>,
     <<"2", " ", "+", " ", "l", "n", "(", "1", ")">>,
     <<"+", "2">>,
     <<"2", " ", "+">>,
     <<"x">>,
     <<"2", "#">>,
     <<"*", "2">>,
     <<"1", "/", "0">>,
     <<>>}

\* Mutant of Calculate: the token sequence is kept from one call to the
\* next instead of starting empty.
CalculateKeepTokens ==
    /\ pc = "done"
    /\ Len(calls) < MaxCalls
    /\ calls' = Append(calls, [expression |-> expression, result |-> result])
    /\ expression' \in CallInputs
    /\ pc' = "evaluate"
    /\ chars' = 1
    /\ stack' = <<>>
    /\ ret' = NoRet
    /\ result' = NoResult
    /\ scanned' = FALSE
    /\ consumed' = <<>>
    /\ applied' = <<>>
    /\ UNCHANGED tokens

\* calculate has returned the outcome of its call (the rendering of result
\* by format!, one text per result); the next request builds a new
\* Calculator and evaluates its own expression from the start.
Calculate ==
    /\ pc = "done"
    /\ Len(calls) < MaxCalls
    /\ calls' = Append(calls, [expression |-> expression, result |-> result])
    /\ expression' \in CallInputs
    /\ pc' = "evaluate"
    /\ chars' = 1
    /\ tokens' = <<>>
    /\ stack' = <<>>
    /\ ret' = NoRet
    /\ result' = NoResult
    /\ scanned' = FALSE
    /\ consumed' = <<>>
    /\ applied' = <<>>

InitCalls ==
    /\ expression \in CallInputs
    /\ pc = "evaluate"
    /\ chars = 1
    /\ tokens = <<>>
    /\ stack = <<>>
    /\ ret = NoRet
    /\ result = NoResult
    /\ scanned = FALSE
    /\ consumed = <<>>
    /\ applied = <<>>
    /\ calls = <<>>

NextCalls == Next \/ Calculate

SpecCalls == InitCalls /\ [][NextCalls]_vars

-----------------------------------------------------------------------------
(* Termination of one call *)

\* evaluate is a sequential function that nothing interrupts: a call that
\* can take a step takes it.
\* The calls whose termination is checked: short inputs of every shape,
\* nested up to MaxNesting pieces deep, the inputs of the tests and the
\* inputs at the length limit that start no number (the token of a number
\* of 1000 digits is computed once, under Spec).
MaxNesting == 3

LivePieces ==
    {<<"2">>, <<".">>, <<"-">>, <<"(">>, <<")">>, Sp, <<"l", "n">>}

LiveInputs ==
    Concats(LivePieces, MaxNesting) \union CallInputs \union TestInputs
        \union {e \in LongInputs : e[1] \notin Digits}

InitLive ==
    /\ expression \in LiveInputs
    /\ pc = "evaluate"
    /\ chars = 1
    /\ tokens = <<>>
    /\ stack = <<>>
    /\ ret = NoRet
    /\ result = NoResult
    /\ scanned = FALSE
    /\ consumed = <<>>
    /\ applied = <<>>
    /\ calls = <<>>

SpecLive == InitLive /\ [][Next]_vars /\ WF_vars(Next)

-----------------------------------------------------------------------------
(* Properties *)

Done == pc = "done"

Failed(kind) == Done /\ ~result.ok /\ result.err = kind

HasUnsafe(e) == \E ch \in {";", "|", "&"} : contains(e, ch)

C2_UnsafeAlwaysRejected ==
    Done /\ HasUnsafe(expression) => Failed("UnsafeCharacter")

\* C2 amended: every input of at most 1000 bytes that contains ';', '|' or
\* '&' fails with UnsafeCharacter, whatever its other characters, and
\* before any token is produced; a longer one fails with InputTooLong.
C2_UnsafeRejectedWithinLimit ==
    Done /\ HasUnsafe(expression) =>
        IF ByteLen(expression) <= 1000
        THEN Failed("UnsafeCharacter") /\ tokens = <<>> /\ chars = 1
        ELSE Failed("InputTooLong")

\* An input of the tests, valid arithmetic followed by "& echo world", has
\* been rejected as unsafe.
C2_Witness ==
    /\ Failed("UnsafeCharacter")
    /\ Len(expression) = 18
    /\ SubSeq(expression, 1, 7) = <<"2", " ", "+", " ", "3", " ", "&">>

\* C3: every input longer than 1000 characters fails with InputTooLong
\* before any character is scanned, whatever its content: no character has
\* been looked at, no token exists, and the call ends with InputTooLong.
C3_TooLongRejectedUnscanned ==
    Len(expression) > 1000 =>
        /\ ~scanned
        /\ tokens = <<>>
        /\ chars = 1
        /\ pc \in {"evaluate", "done"}
        /\ Done => Failed("InputTooLong")

\* An input of 1001 characters ';' has been rejected for its length.
C3_Witness ==
    /\ Failed("InputTooLong")
    /\ Len(expression) = 1001
    /\ HasUnsafe(expression)

\* The six keys of the whitelist.
C4_Keys ==
    {<<"s", "q", "r", "t">>, <<"a", "b", "s">>, <<"s", "i", "n">>,
     <<"c", "o", "s">>, <<"t", "a", "n">>, <<"l", "n">>}

\* The tokenizer is looking at an identifier that is no whitelist key.
C4_AtUnknownIdentifier ==
    /\ pc = "tokenize"
    /\ chars <= Len(expression)
    /\ expression[chars] \in AsciiLetters
    /\ SubSeq(expression, chars, IdentifierEnd(expression, chars) - 1)
           \notin C4_Keys

\* C4: every Function token of the token sequence names one of the six
\* whitelist keys, and so does every function the evaluator has applied; an
\* identifier that is no whitelist key makes the tokenizer fail, in its next
\* step, with UnknownFunction carrying that identifier, and a call that
\* ended with UnknownFunction carries an identifier that is no key.
C4_FunctionTokensWhitelisted ==
    /\ [](/\ \A i \in 1..Len(tokens) :
                tokens[i].t = "Function" => tokens[i].name \in C4_Keys
          /\ \A i \in 1..Len(applied) :
                applied[i].op = "call" => applied[i].name \in C4_Keys
          /\ Failed("UnknownFunction") => result.arg \notin C4_Keys)
    /\ [][C4_AtUnknownIdentifier =>
            /\ pc' = "done"
            /\ ~result'.ok
            /\ result'.err = "UnknownFunction"
            /\ result'.arg = SubSeq(expression, chars,
                                    IdentifierEnd(expression, chars) - 1)
            /\ tokens' = tokens]_vars

\* After a Function token for ln, the identifier x has been rejected.
C4_Witness ==
    /\ Failed("UnknownFunction")
    /\ result.arg = <<"x">>
    /\ tokens = <<Function(<<"l", "n">>)>>

\* C5: whenever the right operand of '/' evaluates to zero (0.0 or -0.0)
\* the evaluation fails with DivisionByZero in that step and the division
\* is not performed, whatever the left operand: no division the evaluator
\* has computed has a zero divisor.
C5_NoDivisionByZero ==
    /\ [](\A i \in 1..Len(applied) :
             applied[i].op = "/" => ~IsZero(applied[i].right))
    /\ [][Running("term", "div") /\ IsZero(ret.val) =>
            /\ pc' = "done"
            /\ ~result'.ok
            /\ result'.err = "DivisionByZero"
            /\ applied' = applied]_vars

\* 0 / -0 has failed with DivisionByZero: the divisor is -0.0, the left
\* operand zero.
C5_Witness ==
    /\ Failed("DivisionByZero")
    /\ expression = <<"0", "/", "-", "0">>
    /\ ret.val = Fin(-1, 0)

-----------------------------------------------------------------------------
(* The expected results of the properties about values: the arithmetic of  *)
(* the operators on results, a failure of the left operand coming first.   *)

\* The value of an operand literal.
ValueOf(lit) == ParseF64(lit).val

\* x c y: the value, or the failure of the operator's own check.
Bin(c, x, y) ==
    CASE c = "+" -> Ok(fadd(x, y))
      [] c = "-" -> Ok(fsub(x, y))
      [] c = "*" -> Ok(fmul(x, y))
      [] c = "/" -> IF feq(y, Zero) THEN Err("DivisionByZero", <<>>)
                    ELSE Ok(fdiv(x, y))
      [] c = "^" -> IF is_finite(powf(x, y)) THEN Ok(powf(x, y))
                    ELSE Err("InvalidPowerResult", <<>>)

\* rx c ry for two results.
BinR(c, rx, ry) ==
    IF ~rx.ok THEN rx ELSE IF ~ry.ok THEN ry ELSE Bin(c, rx.val, ry.val)

\* The call has ended with result r.
Gives(r) ==
    /\ result.ok = r.ok
    /\ IF r.ok THEN result.val = r.val ELSE result.err = r.err

Additive == {"+", "-"}
Multiplicative == {"*", "/"}

\* C6: '*' and '/' bind tighter than '+' and '-', parentheses override
\* this, and operators of one level combine left to right: for all operands
\* a, b, c, "a + b * c" gives a + (b * c), "a * b + c" gives (a * b) + c,
\* "a - b - c" gives (a - b) - c, "a / b / c" gives (a / b) / c,
\* "(a + b) * c" gives (a + b) * c and "a * (b + c)" gives a * (b + c)
\* (for every operator of the two levels in place of those shown; a
\* division by zero gives DivisionByZero).
C6_Precedence ==
    Done /\ expression \in ChainInputs \union ParenInputs =>
      \A a \in Operands, b \in Operands, c \in Operands :
        \A o1 \in Additive \union Multiplicative,
           o2 \in Additive \union Multiplicative :
          LET x == ValueOf(a)
              y == ValueOf(b)
              z == ValueOf(c)
              leftFirst == BinR(o2, Bin(o1, x, y), Ok(z))
              rightFirst == BinR(o1, Ok(x), Bin(o2, y, z))
          IN  /\ expression = a \o <<o1>> \o b \o <<o2>> \o c =>
                    Gives(IF o1 \in Additive /\ o2 \in Multiplicative
                          THEN rightFirst ELSE leftFirst)
              /\ expression = <<"(">> \o a \o <<o1>> \o b \o <<")", o2>> \o c
                    => Gives(leftFirst)
              /\ expression = a \o <<o1, "(">> \o b \o <<o2>> \o c \o <<")">>
                    => Gives(rightFirst)

\* "2+3*2" has given 8 and not 10.
C6_Witness ==
    /\ Done
    /\ expression = <<"2", "+", "3", "*", "2">>
    /\ result = Ok(FInt(8))

\* C7: the power operator is left-associative: for all operands a, b, c,
\* "a^b^c" gives (a^b)^c (InvalidPowerResult as soon as a step is not
\* finite), and "2^3^2" gives 64.
C7_PowerLeftAssociative ==
    Done =>
      /\ expression \in ChainInputs =>
          \A a \in Operands, b \in Operands, c \in Operands :
            expression = a \o <<"^">> \o b \o <<"^">> \o c =>
                Gives(BinR("^", Bin("^", ValueOf(a), ValueOf(b)),
                           Ok(ValueOf(c))))
      /\ expression = <<"2", "^", "3", "^", "2">> => Gives(Ok(FInt(64)))

\* "2^3^2" has given 64, after the two powers 2^3 and 8^2.
C7_Witness ==
    /\ Done
    /\ expression = <<"2", "^", "3", "^", "2">>
    /\ result = Ok(FInt(64))
    /\ applied = <<Did("^", FInt(2), FInt(3)), Did("^", FInt(8), FInt(2))>>

\* The value of an operand under a run of signs.
RECURSIVE Signed(_, _)
Signed(signs, x) ==
    IF signs = <<>> THEN x
    ELSE IF Head(signs) = "-" THEN fneg(Signed(Tail(signs), x))
    ELSE Signed(Tail(signs), x)

\* C8: a unary '-' or '+' applies to the factor that follows it and binds
\* tighter than every binary operator, '^' included; unary '+' changes
\* nothing; a sign is accepted right after a binary operator: for all
\* operands a, b, runs of signs s1, s2 and binary operators o,
\* "s1 a o s2 b" gives (s1 a) o (s2 b); "-2^2" gives 4.
C8_UnarySigns ==
    Done =>
      /\ expression \in SignInputs =>
          \A a \in Operands \union {LitBig, LitHuge},
             b \in Operands \union {LitBig, LitHuge} :
           \A s1 \in Signs, s2 \in Signs, o \in OperatorChars :
             expression = s1 \o a \o <<o>> \o s2 \o b =>
                 Gives(Bin(o, Signed(s1, ValueOf(a)), Signed(s2, ValueOf(b))))
      /\ expression = <<"-", "2", "^", "2">> => Gives(Ok(FInt(4)))

\* "-2^2" has given 4: the power computed is (-2)^2.
C8_Witness ==
    /\ Done
    /\ expression = <<"-", "2", "^", "2">>
    /\ result = Ok(FInt(4))
    /\ applied = <<Did("^", FInt(-2), FInt(2))>>

\* C9: when a whitelisted function applied to its evaluated argument gives
\* a non-finite result, the evaluation fails with InvalidFunctionResult in
\* that step and returns no value: a function application with a
\* non-finite result is the last operation of the call, which ended with
\* InvalidFunctionResult; "sqrt(-1)" fails so.
C9_NonFiniteFunctionResultFails ==
    /\ \A i \in 1..Len(applied) :
          applied[i].op = "call"
            /\ ~is_finite(ApplyFunction(applied[i].name, applied[i].left))
          => /\ i = Len(applied)
             /\ Failed("InvalidFunctionResult")
    /\ Done /\ expression = <<"s", "q", "r", "t", "(", "-", "1", ")">>
          => Failed("InvalidFunctionResult")

\* ln(0) has failed with InvalidFunctionResult: the result is -infinity.
C9_Witness ==
    /\ Failed("InvalidFunctionResult")
    /\ expression = <<"l", "n", "(", "0", ")">>
    /\ applied = <<DidCall(<<"l", "n">>, Zero)>>

\* C10: the call returns the value of the first complete expression that
\* starts at token 0 and drops the final cursor: for all operands a, b,
\* operators o and trailers t (tokens that cannot continue the expression,
\* such as ')' or a further number), "a o b t" gives what "a o b" gives,
\* and no token of the trailer is stepped over.
C10_TrailingTokensDiscarded ==
    Done /\ expression \in TrailingInputs =>
      \A a \in Operands, b \in Operands, o \in OperatorChars, t \in Trailers :
        expression = a \o <<o>> \o b \o t =>
          /\ Gives(Bin(o, ValueOf(a), ValueOf(b)))
          /\ \A i \in 1..Len(consumed) : consumed[i] < 3
          /\ Len(tokens) > 3

\* "2+3)/0" has given 5: the ')' and the division by zero after it were
\* never evaluated.
C10_Witness ==
    /\ Done
    /\ expression = <<"2", "+", "3", ")", "/", "0">>
    /\ result = Ok(FInt(5))
    /\ Len(tokens) = 6
    /\ ret.pos = 3

-----------------------------------------------------------------------------
(* Sequences of calls *)

\* Two results are the same outcome.
C11_Same(r1, r2) ==
    /\ r1.ok = r2.ok
    /\ IF r1.ok THEN r1.val = r2.val
       ELSE r1.err = r2.err /\ r1.arg = r2.arg

\* What one call on expression e gives on its own.
C11_Outcome(e) ==
    CASE e = <<"(", "2", "-", "3", ")", "/", "2", "*", "-", "+", "2", "^", "2">>
             -> Ok(FInt(-2))
      [] e = <<"2", " ", "+", " ", "l", "n", "(", "1", ")">> -> Ok(FInt(2))
      [] e = <<"+", "2">> -> Ok(FInt(2))
      [] e = <<"2", " ", "+">> -> Err("UnexpectedEndOfInput", <<>>)
      [] e = <<"x">> -> Err("UnknownFunction", <<"x">>)
      [] e = <<"2", "#">> -> Err("InvalidCharacter", "#")
      [] e = <<"*", "2">> -> Err("UnexpectedToken", Operator("*"))
      [] e = <<"1", "/", "0">> -> Err("DivisionByZero", <<>>)
      [] e = <<>> -> Err("EmptyExpression", <<>>)

\* C11: in every sequence of calls of calculate, the outcome of each call
\* is a function of its own expression alone: it is the outcome that the
\* expression gives in a first call, whatever calls came before and whether
\* they succeeded or failed, and two calls on the same expression have the
\* same outcome.
C11_OutcomeOfOwnExpression ==
    /\ \A i \in 1..Len(calls) :
          /\ C11_Same(calls[i].result, C11_Outcome(calls[i].expression))
          /\ \A j \in 1..Len(calls) :
                calls[i].expression = calls[j].expression
                    => C11_Same(calls[i].result, calls[j].result)
    /\ Done => /\ C11_Same(result, C11_Outcome(expression))
               /\ \A i \in 1..Len(calls) :
                     calls[i].expression = expression
                         => C11_Same(calls[i].result, result)

\* "+2" has given 2 a second time, after a call that gave 2 and a call
\* that failed.
C11_Witness ==
    /\ Done
    /\ expression = <<"+", "2">>
    /\ result = Ok(FInt(2))
    /\ Len(calls) = 2
    /\ calls[1].expression = <<"+", "2">>
    /\ calls[1].result = Ok(FInt(2))
    /\ ~calls[2].result.ok

-----------------------------------------------------------------------------
(* White space *)

\* The token of a lexeme.
C12_TokenOf(l) ==
    CASE l = Lit2 -> Number(FInt(2))
      [] l = LitHalf -> Number(Fin(1, 1))
      [] l = <<"+">> -> Operator("+")
      [] l = <<"(">> -> LeftParen
      [] l = <<"l", "n">> -> Function(<<"l", "n">>)

\* Lexemes a and b, written with gap g between them, are two tokens: two
\* numbers or two names written with nothing between them are one lexeme.
C12_TwoTokens(a, g, b) ==
    g = <<>> => /\ ~(a \in {Lit2, LitHalf} /\ b \in {Lit2, LitHalf})
                /\ ~(a = <<"l", "n">> /\ b = <<"l", "n">>)

\* tokenize has returned or failed.
C12_TokenizeOver == pc \in {"evaluate_tokens", "evaluate_expression", "done"}

\* For three lexemes written with gaps out of the set gaps, tokenize
\* succeeds with the tokens of the three lexemes.
C12_GapsChangeNothing(gaps) ==
    C12_TokenizeOver /\ expression \in SpacedInputs =>
      \A a \in Lexemes, b \in Lexemes, c \in Lexemes :
        \A g1 \in gaps, g2 \in gaps :
          /\ expression = a \o g1 \o b \o g2 \o c
          /\ C12_TwoTokens(a, g1, b)
          /\ C12_TwoTokens(b, g2, c)
          => /\ chars = Len(expression) + 1
             /\ tokens = <<C12_TokenOf(a), C12_TokenOf(b), C12_TokenOf(c)>>

\* C12 as stated: white-space characters (space, tab) written between two
\* tokens never change the token sequence and never make tokenize fail.
C12_WhitespaceSkipped == C12_GapsChangeNothing(Gaps)

\* C12 amended: a space character is skipped by the tokenizer and produces
\* no token (the step moves to the next character and changes nothing
\* else); spaces written between two tokens never change the token
\* sequence and never make tokenize fail.
C12_SpacesSkipped ==
    /\ [](C12_GapsChangeNothing(SpaceGaps))
    /\ [][Peek(" ") => /\ chars' = chars + 1
                       /\ tokens' = tokens
                       /\ pc' = pc
                       /\ result' = result]_vars

\* "ln  (2" has been tokenized: three tokens, none for the two spaces.
C12_Witness ==
    /\ pc = "evaluate_tokens"
    /\ expression = <<"l", "n", " ", " ", "(", "2">>
    /\ tokens = <<Function(<<"l", "n">>), LeftParen, Number(FInt(2))>>

-----------------------------------------------------------------------------
(* Termination *)

\* The levels of the recursive descent, outermost first.
C13_Level(fn) ==
    CASE fn = "expression" -> 1
      [] fn = "term" -> 2
      [] fn = "power" -> 3
      [] fn = "factor" -> 4

\* One iteration of the loop of tokenize takes at least one character, or
\* returns a failure, or is the end of the loop at the end of the input.
C13_TokenizeStep ==
    pc = "tokenize" =>
        \/ chars' > chars /\ chars' <= Len(expression) + 1 /\ pc' = "tokenize"
        \/ pc' = "done" /\ ~result'.ok
        \/ chars > Len(expression) /\ pc' = "evaluate_tokens"

\* A call made by the evaluator starts behind at least one more token than
\* its caller did, except the call of the next level on the first operand,
\* which starts at the same token; no call starts behind the end.
C13_EvaluatorCall ==
    pc = "evaluate_expression" /\ Len(stack') > Len(stack) /\ stack # <<>> =>
        LET callee == stack'[Len(stack')]
        IN  /\ Len(stack') = Len(stack) + 1
            /\ callee.pos <= Len(tokens)
            /\ IF Top.st = "start" /\ Top.fn # "factor"
               THEN /\ callee.pos = Top.pos
                    /\ C13_Level(callee.fn) > C13_Level(Top.fn)
               ELSE /\ callee.pos > Top.pos
                    /\ Len(consumed') > Len(consumed)

\* C13: for every input, evaluate eventually finishes with a value or a
\* failure: each iteration of the tokenizer loop takes at least one
\* character or returns a failure, and every loop iteration and recursive
\* call of the evaluator steps over at least one token before repeating.
C13_Terminates ==
    /\ <>Done
    /\ [][C13_TokenizeStep]_vars
    /\ [][C13_EvaluatorCall]_vars

\* "(((" has ended, with a failure, after three nested calls through "(".
C13_Witness ==
    /\ Done
    /\ expression = <<"(", "(", "(">>
    /\ ~result.ok
    /\ consumed = <<0, 1, 2>>

-----------------------------------------------------------------------------
(* The empty expression *)

\* C14: evaluation fails with EmptyExpression exactly when the token
\* sequence that tokenize returned is empty, which is when the input is the
\* empty string or made only of skipped characters (spaces); it never
\* fails so when there is a token.
C14_EmptyExactly ==
    /\ Failed("EmptyExpression") =>
          /\ tokens = <<>>
          /\ chars = Len(expression) + 1
          /\ \A i \in 1..Len(expression) : expression[i] = " "
    /\ Done /\ tokens = <<>> /\ chars = Len(expression) + 1 =>
          Failed("EmptyExpression")
    /\ pc \in {"evaluate_expression", "done"} /\ tokens # <<>> =>
          ~(~result.ok /\ result.err = "EmptyExpression")

\* Three spaces have failed with EmptyExpression.
C14_Witness ==
    /\ Failed("EmptyExpression")
    /\ expression = <<" ", " ", " ">>
    /\ chars = 4

-----------------------------------------------------------------------------
(* Powers *)

\* The step after the right operand of '^': left.powf(right) is computed
\* and checked; it becomes the new left, or the call fails.
C15_PowerStep ==
    Running("power", "pow") =>
        LET p == powf(Top.left, ret.val)
        IN  IF is_finite(p)
            THEN /\ pc' = "evaluate_expression"
                 /\ Len(stack') = Len(stack)
                 /\ stack'[Len(stack')].fn = "power"
                 /\ stack'[Len(stack')].st = "loop"
                 /\ stack'[Len(stack')].left = p
            ELSE /\ pc' = "done"
                 /\ ~result'.ok
                 /\ result'.err = "InvalidPowerResult"

\* The power level returns the left it holds.
C15_PowerReturn ==
    Running("power", "loop") /\ Len(stack') < Len(stack) /\ pc' = pc =>
        ret'.val = Top.left

\* C15: after each '^' step the result of left.powf(right) is checked and a
\* non-finite result fails with InvalidPowerResult in that step; a finite
\* one is the left that the power level holds and returns; so a power with
\* a non-finite result is the last operation of a call that failed with
\* InvalidPowerResult, and a value that is returned by the power level
\* after a '^' step is finite.
C15_PowerResultChecked ==
    /\ [](/\ \A i \in 1..Len(applied) :
                applied[i].op = "^"
                  /\ ~is_finite(powf(applied[i].left, applied[i].right))
                => /\ i = Len(applied)
                   /\ Failed("InvalidPowerResult")
          /\ Running("power", "loop") /\ applied # <<>> =>
                LET last == applied[Len(applied)]
                IN  last.op = "^" /\ Top.left = powf(last.left, last.right)
                        => is_finite(Top.left))
    /\ [][C15_PowerStep]_vars
    /\ [][C15_PowerReturn]_vars

\* "0^-2" has failed with InvalidPowerResult: the power is infinite.
C15_Witness ==
    /\ Failed("InvalidPowerResult")
    /\ expression = <<"0", "^", "-", "2">>
    /\ applied = <<Did("^", Zero, FInt(-2))>>
    /\ powf(Zero, FInt(-2)) = Inf(1)

-----------------------------------------------------------------------------
(* Function applications *)

\* The factor at a Function token that no '(' follows fails.
C16_OpeningChecked ==
    /\ Running("factor", "start")
    /\ Top.pos < Len(tokens)
    /\ TokenAt(Top.pos).t = "Function"
    /\ ~HasToken(Top.pos + 1, LeftParen)
    => /\ pc' = "done"
       /\ ~result'.ok
       /\ result'.err = "MissingFunctionParenthesis"
       /\ applied' = applied

\* The factor whose argument has been evaluated and that no ')' follows
\* fails.
C16_ClosingChecked ==
    Running("factor", "func") /\ ~HasToken(ret.pos, RightParen)
    => /\ pc' = "done"
       /\ ~result'.ok
       /\ result'.err = "MissingFunctionClosingParenthesis"
       /\ applied' = applied

\* A function is applied only to the value of the argument of
\* FUNCTION '(' argument ')', all four parts being there.
C16_AppliedAfterChecks ==
    Len(applied') > Len(applied) /\ applied'[Len(applied')].op = "call"
    => /\ Running("factor", "func")
       /\ HasToken(ret.pos, RightParen)
       /\ Top.pos >= 2
       /\ Top.pos <= ret.pos
       /\ TokenAt(Top.pos - 1) = LeftParen
       /\ TokenAt(Top.pos - 2) = Function(applied'[Len(applied')].name)
       /\ applied'[Len(applied')].left = ret.val

\* C16: a Function token is evaluated only in the shape
\* FUNCTION '(' expression ')': when the token after the name is not '(' or
\* is missing the evaluation fails with MissingFunctionParenthesis; when the
\* token after the evaluated argument is not ')' or is missing it fails
\* with MissingFunctionClosingParenthesis; the function is applied only
\* after both checks have passed. For every function f and operands a, b:
\* "f a" and "f -a" fail the first way, "f(a" and "f(a b)" the second.
C16_FunctionShape ==
    /\ [](Done /\ expression \in FunctionInputs =>
            \A f \in Whitelist, a \in Operands \union {LitHuge} :
              /\ expression \in {f \o a, f \o <<"-">> \o a}
                    => Failed("MissingFunctionParenthesis") /\ applied = <<>>
              /\ expression \in
                    {f \o <<"(">> \o a}
                      \union {f \o <<"(">> \o a \o Sp \o b \o <<")">> :
                                 b \in Operands}
                    => /\ Failed("MissingFunctionClosingParenthesis")
                       /\ applied = <<>>)
    /\ [][C16_OpeningChecked]_vars
    /\ [][C16_ClosingChecked]_vars
    /\ [][C16_AppliedAfterChecks]_vars

\* "ln(0.5 2)" has failed with MissingFunctionClosingParenthesis: the
\* argument 0.5 was evaluated and ln was not applied.
C16_Witness ==
    /\ Failed("MissingFunctionClosingParenthesis")
    /\ expression = <<"l", "n", "(", ".", "5", " ", "2", ")">>
    /\ ret = [val |-> Fin(1, 1), pos |-> 3]
    /\ applied = <<>>

-----------------------------------------------------------------------------
(* The cursor *)

\* A parse function returns Ok((value, cursor)): the cursor is greater than
\* the one the function received (the one its caller holds; 0 for the
\* outermost call), within the tokens, and just behind the last token
\* stepped over.
C17_CursorReturned ==
    pc = "evaluate_expression" /\ pc' = pc /\ Len(stack') < Len(stack) =>
        LET received == IF stack' = <<>> THEN 0 ELSE stack'[Len(stack')].pos
        IN  /\ Len(stack') = Len(stack) - 1
            /\ ret'.pos > received
            /\ ret'.pos <= Len(tokens)
            /\ consumed' # <<>>
            /\ ret'.pos = consumed'[Len(consumed')] + 1

\* C17: in every parse step the cursor stays within 0..=tokens.len(); each
\* parse function returns a cursor greater than the one it received, which
\* is the position just after the construct it consumed; no token index is
\* consumed twice: the indexes stepped over are 0, 1, 2, ... in this order.
C17_CursorAdvances ==
    /\ [](/\ \A i \in 1..Len(stack) : stack[i].pos \in 0..Len(tokens)
          /\ ret.pos \in 0..Len(tokens)
          /\ Len(consumed) <= Len(tokens)
          /\ \A i \in 1..Len(consumed) : consumed[i] = i - 1)
    /\ [][C17_CursorReturned]_vars

\* "(2)" has given 2: the three tokens were stepped over once each and the
\* cursor returned is 3.
C17_Witness ==
    /\ Done
    /\ expression = <<"(", "2", ")">>
    /\ result = Ok(FInt(2))
    /\ consumed = <<0, 1, 2>>
    /\ ret.pos = 3

-----------------------------------------------------------------------------
(* Numbers *)

\* e[i..n-1] is a run of digits with at most one '.'.
C18_IsRun(e, i, n) ==
    /\ \A j \in i..(n - 1) : e[j] \in Digits \union {"."}
    /\ Cardinality({j \in i..(n - 1) : e[j] = "."}) <= 1

\* The index behind the longest such run that starts at e[i].
C18_RunEnd(e, i) ==
    CHOOSE n \in (i + 1)..(Len(e) + 1) :
        /\ C18_IsRun(e, i, n)
        /\ n = Len(e) + 1 \/ ~C18_IsRun(e, i, n + 1)

\* The float nearest to the decimal number that a short run denotes: its
\* digits read as one integer, over ten to the number of digits behind the
\* '.'.
C18_Value(run) ==
    LET digits == SelectSeq(run, LAMBDA ch : ch # ".")
        behind == IF contains(run, ".")
                  THEN Len(run) - (CHOOSE i \in 1..Len(run) : run[i] = ".")
                  ELSE 0
        tenth  == [k \in 0..6 |-> CASE k = 0 -> 1 [] k = 1 -> 10
                                    [] k = 2 -> 100 [] k = 3 -> 1000
                                    [] k = 4 -> 10000 [] k = 5 -> 100000
                                    [] k = 6 -> 1000000]
    IN  Mk(1, 2 * DigitsVal(digits, 1, Len(digits), 0), tenth[behind])

\* The step of the tokenizer on a digit or '.'.
C18_NumberStep ==
    /\ pc = "tokenize"
    /\ chars <= Len(expression)
    /\ expression[chars] \in Digits \union {"."}
    => LET end == C18_RunEnd(expression, chars)
           run == SubSeq(expression, chars, end - 1)
       IN  IF \E j \in 1..Len(run) : run[j] \in Digits
           THEN /\ pc' = "tokenize"
                /\ chars' = end
                /\ Len(tokens') = Len(tokens) + 1
                /\ SubSeq(tokens', 1, Len(tokens)) = tokens
                /\ tokens'[Len(tokens')].t = "Number"
                /\ Len(run) <= 6 =>
                      tokens'[Len(tokens')] = Number(C18_Value(run))
           ELSE /\ run = <<".">>
                /\ pc' = "done"
                /\ ~result'.ok
                /\ result'.err = "NumberParseError"
                /\ tokens' = tokens

\* C18: on a digit or '.', the tokenizer consumes the longest run of digits
\* that contains at most one '.', emits exactly one Number token for that
\* run, with the value the run denotes, and fails with NumberParseError
\* when the run holds no digit (a lone '.'); a second '.' ends the run and
\* starts a new number: "2.5.5" gives the tokens 2.5 and 0.5, "2..5" the
\* tokens 2 and 0.5.
C18_LongestRun ==
    /\ [](pc \in {"evaluate_tokens", "evaluate_expression", "done"} =>
            /\ expression = <<"2", ".", "5", ".", "5">> =>
                  tokens = <<Number(Fin(1, 5)), Number(Fin(1, 1))>>
            /\ expression = <<"2", ".", ".", "5">> =>
                  tokens = <<Number(FInt(2)), Number(Fin(1, 1))>>
            /\ expression = <<"2", ".", ".">> =>
                  Failed("NumberParseError") /\ tokens = <<Number(FInt(2))>>)
    /\ [][C18_NumberStep]_vars

\* "2.5.5" has been tokenized: two numbers, 2.5 and 0.5.
C18_Witness ==
    /\ pc = "evaluate_tokens"
    /\ expression = <<"2", ".", "5", ".", "5">>
    /\ tokens = <<Number(Fin(1, 5)), Number(Fin(1, 1))>>

-----------------------------------------------------------------------------
(* The example "2 + 3) extra" *)

C19_Example ==
    <<"2", " ", "+", " ", "3", ")", " ", "e", "x", "t", "r", "a">>

\* C19 as stated: the input "2 + 3) extra" evaluates successfully to 5, the
\* unconsumed ')' and the trailing text being discarded.
C19_ExampleGivesFive ==
    Done /\ expression = C19_Example => result = Ok(FInt(5))

\* C19 amended: the input "2 + 3) extra" fails with UnknownFunction for
\* the identifier "extra", which the tokenizer rejects after the tokens 2,
\* +, 3 and ')' and before anything is evaluated; the inputs "2 + 3) 4" and
\* "2 + 3) sin", whose trailing text tokenizes, evaluate successfully to 5,
\* the unconsumed ')' and the tokens after it being discarded.
C19_ExampleFailsInTokenizer ==
    Done =>
      /\ expression = C19_Example =>
            /\ Failed("UnknownFunction")
            /\ result.arg = <<"e", "x", "t", "r", "a">>
            /\ tokens = <<Number(FInt(2)), Operator("+"), Number(FInt(3)),
                          RightParen>>
            /\ consumed = <<>>
            /\ applied = <<>>
      /\ expression \in TrailingTextInputs =>
            /\ result = Ok(FInt(5))
            /\ Len(tokens) = 5
            /\ consumed = <<0, 1, 2>>

\* "2 + 3) extra" has failed with UnknownFunction at the identifier.
C19_Witness ==
    /\ Failed("UnknownFunction")
    /\ expression = C19_Example
    /\ chars = 8
    /\ pc = "done"

-----------------------------------------------------------------------------
(* The length limit *)

\* C20: the length limit counts characters: an input of at most 1000
\* characters is never rejected with InputTooLong, also when its
\* characters occupy more than one byte each.
C20_LimitCountsCharacters ==
    Done /\ Len(expression) <= MaxInputLen => ~Failed("InputTooLong")

-----------------------------------------------------------------------------
(* The order of failures *)

C21_LexicalFailures ==
    {"InvalidCharacter", "UnknownFunction", "NumberParseError"}

\* The character starts no token and is no space.
C21_StartsNoToken(ch) ==
    ch \notin {" ", ".", "(", ")"} \union Digits \union OperatorChars
                                  \union AsciiLetters

\* The failure of each failing expression.
C21_FailureOf(f) ==
    CASE f = <<"1", "/", "0">> -> "DivisionByZero"
      [] f = <<"l", "n", "(", "0", ")">> -> "InvalidFunctionResult"
      [] f = <<"0", "^", "-", "2">> -> "InvalidPowerResult"
      [] f = <<"l", "n", "2">> -> "MissingFunctionParenthesis"
      [] f = <<"(", "2", " ", "3", ")">> -> "UnmatchedParenthesis"
      [] f = <<")">> -> "UnexpectedToken"
      [] f = <<"l", "n", "(", "2", " ", "3", ")">>
             -> "MissingFunctionClosingParenthesis"

\* The failure of each rejected text.
C21_RejectionOf(l) ==
    CASE l = <<"#">> -> "InvalidCharacter"
      [] l = <<"x">> -> "UnknownFunction"
      [] l = <<" ", ".">> -> "NumberParseError"

\* The operation, had it been the last one, would have failed.
C21_Fails(op) ==
    CASE op.op = "/" -> IsZero(op.right)
      [] op.op = "^" -> ~is_finite(powf(op.left, op.right))
      [] op.op = "call" -> ~is_finite(ApplyFunction(op.name, op.left))
      [] OTHER -> FALSE

\* C21 as stated: if any position of the input holds a character the
\* tokenizer rejects, evaluate fails with a lexical failure
\* (InvalidCharacter, UnknownFunction or NumberParseError).
C21_LexicalFailureAlways ==
    Done /\ (\E i \in 1..Len(expression) : C21_StartsNoToken(expression[i]))
        => ~result.ok /\ result.err \in C21_LexicalFailures

\* The evaluator runs on the tokens of the whole input and the tokenizer
\* has evaluated nothing.
C21_TokenizeFirst ==
    /\ pc \in {"evaluate", "unsafe_check", "tokenize"} =>
          stack = <<>> /\ consumed = <<>> /\ applied = <<>>
    /\ pc \in {"evaluate_tokens", "evaluate_expression"}
          \/ consumed # <<>> \/ applied # <<>> \/ (Done /\ result.ok)
          => chars = Len(expression) + 1
    /\ ~result.ok /\ result.err \in C21_LexicalFailures =>
          /\ chars <= Len(expression)
          /\ consumed = <<>>
          /\ applied = <<>>

\* An input that passes the two checks of evaluate and holds a rejected
\* character or text fails with a lexical failure, that of the first
\* rejected text, whatever comes before it.
C21_LexicalFailureFirst ==
    Done /\ ByteLen(expression) <= MaxInputLen /\ ~HasUnsafe(expression) =>
      /\ (\E i \in 1..Len(expression) : C21_StartsNoToken(expression[i]))
            => ~result.ok /\ result.err \in C21_LexicalFailures
      /\ expression \in FailureInputs =>
            \A p \in {<<>>, <<"2", "+">>}, f \in FailingExpressions,
               l \in RejectedTexts :
              \A t \in {<<>>, <<"+", "1", "/", "0">>, <<"x">>} :
                expression = p \o f \o l \o t =>
                    /\ Failed(C21_RejectionOf(l))
                    /\ chars = Len(p \o f) + (IF l = <<" ", ".">> THEN 2 ELSE 1)

\* The failure reported by the evaluator is the first one in the order of
\* the tokens: no operation before the last one fails, and of two failing
\* expressions the failure of the left one is reported.
C21_EvaluationFailureFirst ==
    /\ \A i \in 1..(Len(applied) - 1) : ~C21_Fails(applied[i])
    /\ Done /\ expression \in FailureInputs =>
          \A p \in {<<>>, <<"2", "+">>}, f1 \in FailingExpressions,
             f2 \in FailingExpressions :
            \A o \in {"+", "-", "*", "/"} :
              expression = p \o f1 \o <<o>> \o f2 => Failed(C21_FailureOf(f1))

\* A step of the evaluator reads no character and adds no token.
C21_TokensFixed ==
    pc \in {"evaluate_tokens", "evaluate_expression"} =>
        /\ tokens' = tokens
        /\ chars' = chars

\* C21 amended: tokenization of the whole input finishes before evaluation
\* starts (no token is added and no character read once the evaluator runs);
\* an input that passes the length check and the check for ';', '|' and '&'
\* and holds a character or text the tokenizer rejects fails with the
\* lexical failure of the first rejected position, also when an earlier part
\* would fail in the evaluator; among evaluation failures the one met first
\* in left-to-right token order is reported.
C21_TokenizeThenEvaluate ==
    /\ [](C21_TokenizeFirst /\ C21_LexicalFailureFirst
            /\ C21_EvaluationFailureFirst)
    /\ [][C21_TokensFixed]_vars

\* "1/0#+1/0" has failed with InvalidCharacter at the '#': nothing was
\* evaluated.
C21_Witness ==
    /\ Failed("InvalidCharacter")
    /\ expression = <<"1", "/", "0", "#", "+", "1", "/", "0">>
    /\ chars = 4
    /\ Len(tokens) = 3
    /\ applied = <<>>

====
